---- MODULE Spec2Model ----
(***************************************************************************)
(* HashTable<K, V> of src/table/mod.rs: a key -> slot map (indices_table)  *)
(* and one flat row-major value buffer (values_vector), with the public    *)
(* operations that construct and mutate it.  Every operation is modelled   *)
(* as the code computes it, panics included: a panic ends the run and the  *)
(* table is left as it was at the point of the panic.                      *)
(***************************************************************************)
EXTENDS Integers, Sequences, FiniteSets, TLC

\* ------------------------------------------------------------------ bounds
\* Column keys and values the inputs are drawn from.
Keys == {"a", "b", "c"}
Values == {0, 1}
\* The sequences over S of length 0..n.
SeqsUpTo(S, n) == UNION {[1..m -> S] : m \in 0..n}
\* Largest value buffer the growing operations are allowed to build.
MaxLen == 4
\* Longest (key, value) pair sequence handed to push_row: one pair per key there is.
MaxPairs == Cardinality(Keys)
\* Row indices handed to the operations on a table of c columns whose buffer
\* holds len values: every row of the table and the first two out of range.
RowArgs(c, len) == 0..(IF c = 0 THEN len + 1 ELSE (len \div c) + 1)

\* ------------------------------------------------------------- Option<T>
None == [tag |-> "None"]
Some(x) == [tag |-> "Some", val |-> x]
Panic == [tag |-> "Panic"]
IsSome(o) == o.tag = "Some"

\* -------------------------------------------------------------- Vec<V>
\* Indices are the code's 0-based indices; TLA+ sequences are 1-based.
\* v[start..end)
VecSlice(v, start, end) == [j \in 1..(end - start) |-> v[start + j]]

\* Vec::insert(index, x), index <= len
VecInsert(v, index, x) ==
  [j \in 1..(Len(v) + 1) |->
     IF j <= index THEN v[j] ELSE IF j = index + 1 THEN x ELSE v[j - 1]]

\* Vec::remove(index), index < len: the vector without the element
VecRemove(v, index) ==
  [j \in 1..(Len(v) - 1) |-> IF j <= index THEN v[j] ELSE v[j + 1]]

\* Vec::drain(start..end), end <= len: the vector without the range
VecDrain(v, start, end) == VecSlice(v, 0, start) \o VecSlice(v, end, Len(v))

\* ---------------------------------------------------------------- state
VARIABLES
  indices_table,   \* HashMap<K, usize>: a function from the column keys to slots
  values_vector,   \* Vec<V>
  op,              \* the operation that produced this state
  args,            \* its arguments
  pre,             \* the table it was applied to
  ret,             \* what it returned (Panic when it panicked)
  iter             \* the iterator over the table that is in use, NoIter when none is

vars == <<indices_table, values_vector, op, args, pre, ret, iter>>

Table(it, vv) == [indices_table |-> it, values_vector |-> vv]
\* What an operation leaves behind: the table and the returned value.
Result(it, vv, r) == [indices_table |-> it, values_vector |-> vv, ret |-> r]

EmptyMap == [k \in {} |-> 0]
NoArgs == [none |-> TRUE]
NoIter == [kind |-> "none"]

\* ------------------------------------------------------------ accessors
columns_len(it) == Cardinality(DOMAIN it)

\* usize division: the caller panics when columns_len is 0 (see DivByZero).
rows_len(it, vv) == Len(vv) \div columns_len(it)

\* rows_len() divides by columns_len(): a division by zero panics.
DivByZero(it) == columns_len(it) = 0

row_start(it, row) == columns_len(it) * row

column_index(it, column) ==
  IF column \in DOMAIN it THEN Some(it[column]) ELSE None

elem_index(it, column, row) ==
  IF IsSome(column_index(it, column))
  THEN Some(row_start(it, row) + column_index(it, column).val)
  ELSE None

\* Vec::get(index)
VecGet(v, index) == IF index < Len(v) THEN Some(v[index + 1]) ELSE None

get(it, vv, column, row) ==
  IF IsSome(elem_index(it, column, row))
  THEN VecGet(vv, elem_index(it, column, row).val)
  ELSE None

\* ---------------------------------------------------------- constructors
\* columns.into_iter().zip(0..).collect(): a repeated key keeps its last index.
indices_table_from_iterator(columns) ==
  [k \in {columns[i] : i \in 1..Len(columns)} |->
     (CHOOSE i \in 1..Len(columns) :
        /\ columns[i] = k
        /\ \A j \in 1..Len(columns) : columns[j] = k => j <= i) - 1]

with_columns(columns) ==
  Result(indices_table_from_iterator(columns), <<>>, None)

\* from_column_keys_and_rows that keeps the values past the last whole row.
FromColumnKeysAndRowsWhole(columns, rows) ==
  IF columns_len(indices_table_from_iterator(columns)) = 0
  THEN Result(EmptyMap, <<>>, Panic)
  ELSE Result(indices_table_from_iterator(columns), rows, None)

\* rows is the flattened row iterator; `len % 0` panics before a table exists.
from_column_keys_and_rows(columns, rows) ==
  LET it == indices_table_from_iterator(columns)
  IN  IF columns_len(it) = 0
      THEN Result(EmptyMap, <<>>, Panic)
      ELSE Result(it, VecSlice(rows, 0, Len(rows) - (Len(rows) % columns_len(it))), None)

\* ------------------------------------------------------------- push_row
\* Option<&usize> as a sort key: None sorts before every Some.
SortKey(it, k) == IF k \in DOMAIN it THEN it[k] + 1 ELSE 0

\* Where the stable sort puts pairs[j]: behind every pair with a smaller sort key
\* and behind the earlier pairs with an equal one.
SortRank(it, pairs, j) ==
  1 + Cardinality({i \in 1..Len(pairs) :
        \/ SortKey(it, pairs[i][1]) < SortKey(it, pairs[j][1])
        \/ SortKey(it, pairs[i][1]) = SortKey(it, pairs[j][1]) /\ i < j})

\* pairs.sort_by_key(|(k, _)| self.indices_table.get(k)), a stable sort
SortPairs(it, pairs) ==
  [n \in 1..Len(pairs) |-> pairs[CHOOSE j \in 1..Len(pairs) : SortRank(it, pairs, j) = n]]

push_row(it, vv, row) ==
  LET pairs == SortPairs(it, row)
  IN  Result(it, vv \o [j \in 1..Len(pairs) |-> pairs[j][2]], None)

\* --------------------------------------------------------- push_row_with
\* The orders in which sort_by_key can leave the map's entries: every key once,
\* slots ascending; keys that share a slot stay in the map's iteration order,
\* which is unspecified.
SlotOrders(it) ==
  {ks \in [1..columns_len(it) -> DOMAIN it] :
     /\ \A k \in DOMAIN it : \E j \in 1..columns_len(it) : ks[j] = k
     /\ \A i, j \in 1..columns_len(it) : i < j => it[ks[i]] <= it[ks[j]]}

\* keys is the sorted entry list, row_generator a function of the key.
push_row_with(it, vv, keys, row_generator) ==
  Result(it, vv \o [j \in 1..Len(keys) |-> row_generator[keys[j]]], None)

\* ------------------------------------------------------------ remove_row
\* HashTableRowValueOwned: the map the row borrows and the values it owns.
RowValueOwned(it, values) == [parent_indices_table |-> it, values |-> values]

\* HashTableRowValueOwned::get
RowValueOwned_get(r, key) ==
  IF key \in DOMAIN r.parent_indices_table
  THEN VecGet(r.values, r.parent_indices_table[key])
  ELSE None

remove_row(it, vv, row) ==
  IF DivByZero(it) THEN Result(it, vv, Panic)
  ELSE IF row >= rows_len(it, vv) THEN Result(it, vv, None)
  ELSE LET row_begin == row * rows_len(it, vv)
           row_end == row_begin + rows_len(it, vv)
       IN  IF row_end > Len(vv)
           THEN Result(it, vv, Panic)   \* drain: range end out of bounds
           ELSE Result(it, VecDrain(vv, row_begin, row_end),
                       Some(RowValueOwned(it, VecSlice(vv, row_begin, row_end))))

\* ---------------------------------------------------- remove_row_hashmap
\* The slots some key holds, ascending: the BTreeMap's key order.
RECURSIVE SlotSeq(_)
SlotSeq(slots) ==
  IF slots = {} THEN <<>>
  ELSE LET m == CHOOSE x \in slots : \A y \in slots : x <= y
       IN  <<m>> \o SlotSeq(slots \ {m})

\* The inverse maps the BTreeMap can end up as: of the keys that share a slot,
\* the one the map's iteration yields last stays.
InverseTables(it) ==
  {inv \in [{it[k] : k \in DOMAIN it} -> DOMAIN it] :
     \A s \in DOMAIN inv : it[inv[s]] = s}

\* inverse is the inverse_indices_table the BTreeMap was collected into.
remove_row_hashmap(it, vv, row, inverse) ==
  IF DivByZero(it) THEN Result(it, vv, Panic)
  ELSE IF row >= rows_len(it, vv) THEN Result(it, vv, None)
  ELSE LET start == row * columns_len(it)
           end == start + columns_len(it)
           slots == SlotSeq(DOMAIN inverse)
           drained == VecSlice(vv, start, end)
       IN  \* zip stops at the shorter side; the drain removes its whole range
           Result(it, VecDrain(vv, start, end),
                  Some([k \in {inverse[slots[j]] : j \in 1..Len(slots)} |->
                          drained[CHOOSE j \in 1..Len(slots) : inverse[slots[j]] = k]]))

\* --------------------------------------------------------- insert_column
\* The loop `for i in 0..rows`, from iteration i on; values is what the
\* iterator has left.  An exhausted iterator panics in the middle of the loop.
RECURSIVE insert_column_loop(_, _, _, _, _, _)
insert_column_loop(it, vv, values, i, rows, new_column_index) ==
  IF i >= rows THEN Result(it, vv, None)
  ELSE IF values = <<>> THEN Result(it, vv, Panic)
  ELSE IF (i + 1) * new_column_index > Len(vv) THEN Result(it, vv, Panic)
  ELSE insert_column_loop(it,
                          VecInsert(vv, (i + 1) * new_column_index, Head(values)),
                          Tail(values), i + 1, rows, new_column_index)

insert_column(it, vv, column, values) ==
  IF DivByZero(it) THEN Result(it, vv, Panic)
  ELSE LET rows == rows_len(it, vv)
           new_column_index == columns_len(it)
           inserted == [k \in DOMAIN it \cup {column} |->
                          IF k = column THEN new_column_index ELSE it[k]]
       IN  insert_column_loop(inserted, vv, values, 0, rows, new_column_index)

\* --------------------------------------------------------- remove_column
\* The loop `for i in 0..rows`, from iteration i on; buf is what was taken so far.
RECURSIVE remove_column_loop(_, _, _, _, _, _, _)
remove_column_loop(it, vv, key, column_index_, buf, i, rows) ==
  IF i >= rows THEN Result(it, vv, Some([key |-> key, values |-> buf]))
  ELSE IF i * columns_len(it) + column_index_ >= Len(vv)
       THEN Result(it, vv, Panic)   \* Vec::remove: index out of bounds
       ELSE remove_column_loop(it, VecRemove(vv, i * columns_len(it) + column_index_),
                               key, column_index_,
                               Append(buf, vv[i * columns_len(it) + column_index_ + 1]),
                               i + 1, rows)

remove_column(it, vv, column) ==
  IF column \notin DOMAIN it THEN Result(it, vv, None)
  ELSE LET rows == rows_len(it, vv)
           column_index_ == it[column]
           removed == [k \in DOMAIN it \ {column} |->
                         IF it[k] > column_index_ THEN it[k] - 1 ELSE it[k]]
       IN  IF DivByZero(removed)
           THEN Result(removed, vv, Panic)   \* Vec::with_capacity(self.rows_len())
           ELSE remove_column_loop(removed, vv, column, column_index_, <<>>, 0, rows)

\* ---------------------------------------------- remove_column; insert_column
\* let c = table.remove_column(column)?; table.insert_column(c.key, c.values)
remove_then_insert_column(it, vv, column) ==
  LET removed == remove_column(it, vv, column)
  IN  IF IsSome(removed.ret)
      THEN insert_column(removed.indices_table, removed.values_vector,
                         removed.ret.val.key, removed.ret.val.values)
      ELSE removed

\* --------------------------------------------------------------- get_mut
\* get_mut that forgets the column's slot: the first place of the row.
GetMutRowStart(it, vv, column, row) ==
  IF column \in DOMAIN it /\ row_start(it, row) < Len(vv)
  THEN Some(row_start(it, row))
  ELSE None

\* The place in values_vector the returned &mut V refers to.
get_mut(it, vv, column, row) ==
  IF IsSome(elem_index(it, column, row)) /\ elem_index(it, column, row).val < Len(vv)
  THEN elem_index(it, column, row)
  ELSE None

\* *table.get_mut(column, row)? = value
write_get_mut(it, vv, column, row, value) ==
  IF IsSome(get_mut(it, vv, column, row))
  THEN Result(it, [vv EXCEPT ![get_mut(it, vv, column, row).val + 1] = value],
              get_mut(it, vv, column, row))
  ELSE Result(it, vv, None)

\* -------------------------------------------------------------- actions
\* The keys of a pair sequence, and whether it names every column exactly once
\* (the precondition push_row is documented with).
PairKeys(row) == {row[j][1] : j \in 1..Len(row)}
ExactlyTheColumns(it, row) == PairKeys(row) = DOMAIN it /\ Len(row) = columns_len(it)

\* A call is made on a table no earlier call still borrows; a panic ends the run.
Ready == op \in {"default", "idle"}

Apply(name, a, r) ==
  /\ Ready
  /\ op' = name
  /\ args' = a
  /\ pre' = Table(indices_table, values_vector)
  /\ indices_table' = r.indices_table
  /\ values_vector' = r.values_vector
  /\ ret' = r.ret
  /\ iter' = iter

Init ==
  /\ indices_table = EmptyMap
  /\ values_vector = <<>>
  /\ op = "default"
  /\ args = NoArgs
  /\ pre = Table(EmptyMap, <<>>)
  /\ ret = None
  /\ iter = NoIter

WithColumns ==
  /\ op = "default"
  /\ \E columns \in SeqsUpTo(Keys, Cardinality(Keys)) :
       Apply("with_columns", [columns |-> columns], with_columns(columns))

FromColumnKeysAndRows ==
  /\ op = "default"
  /\ \E columns \in SeqsUpTo(Keys, Cardinality(Keys)), rows \in SeqsUpTo(Values, MaxLen) :
       Apply("from_column_keys_and_rows", [columns |-> columns, rows |-> rows],
             from_column_keys_and_rows(columns, rows))

PushRow ==
  \E row \in SeqsUpTo(Keys \X Values, MaxPairs) :
    /\ Len(values_vector) + Len(row) <= MaxLen
    /\ Apply("push_row", [row |-> row], push_row(indices_table, values_vector, row))

PushRowWith ==
  \E keys \in SlotOrders(indices_table), row_generator \in [Keys -> Values] :
    /\ Len(values_vector) + Len(keys) <= MaxLen
    /\ Apply("push_row_with", [keys |-> keys, row_generator |-> row_generator],
             push_row_with(indices_table, values_vector, keys, row_generator))

RemoveRow ==
  \E row \in RowArgs(Cardinality(DOMAIN indices_table), Len(values_vector)) :
    Apply("remove_row", [row |-> row], remove_row(indices_table, values_vector, row))

RemoveRowHashmap ==
  \E row \in RowArgs(Cardinality(DOMAIN indices_table), Len(values_vector)), inverse \in InverseTables(indices_table) :
    Apply("remove_row_hashmap", [row |-> row, inverse |-> inverse],
          remove_row_hashmap(indices_table, values_vector, row, inverse))

InsertColumn ==
  \E column \in Keys, values \in SeqsUpTo(Values, MaxLen) :
    /\ Len(values_vector) + Len(values) <= MaxLen
    /\ Apply("insert_column", [column |-> column, values |-> values],
             insert_column(indices_table, values_vector, column, values))

RemoveColumn ==
  \E column \in Keys :
    Apply("remove_column", [column |-> column],
          remove_column(indices_table, values_vector, column))

RemoveThenInsertColumn ==
  \E column \in Keys :
    Apply("remove_then_insert_column", [column |-> column],
          remove_then_insert_column(indices_table, values_vector, column))

Get ==
  \E column \in Keys, row \in RowArgs(Cardinality(DOMAIN indices_table), Len(values_vector)) :
    Apply("get", [column |-> column, row |-> row],
          Result(indices_table, values_vector,
                 get(indices_table, values_vector, column, row)))

GetMut ==
  \E column \in Keys, row \in RowArgs(Cardinality(DOMAIN indices_table), Len(values_vector)), value \in Values :
    Apply("get_mut", [column |-> column, row |-> row, value |-> value],
          write_get_mut(indices_table, values_vector, column, row, value))

\* The value a call returned (a view borrowing the table, a &mut V, a removed
\* row or column) is dropped, and the table can be used again.
Release ==
  /\ op \notin {"default", "idle"}
  /\ ret.tag # "Panic"
  /\ iter = NoIter
  /\ op' = "idle"
  /\ args' = NoArgs
  /\ pre' = Table(indices_table, values_vector)
  /\ ret' = None
  /\ UNCHANGED <<indices_table, values_vector, iter>>

Next ==
  \/ WithColumns
  \/ FromColumnKeysAndRows
  \/ PushRow
  \/ PushRowWith
  \/ RemoveRow
  \/ RemoveRowHashmap
  \/ InsertColumn
  \/ RemoveColumn
  \/ RemoveThenInsertColumn
  \/ Get
  \/ GetMut
  \/ Release

Spec == Init /\ [][Next]_vars

\* ------------------------------------------- calls as the documentation asks
\* push_row with one pair per column key, in any order.
PushRowExact ==
  \E row \in SeqsUpTo(Keys \X Values, MaxPairs) :
    /\ ExactlyTheColumns(indices_table, row)
    /\ Len(values_vector) + Len(row) <= MaxLen
    /\ Apply("push_row", [row |-> row], push_row(indices_table, values_vector, row))

\* insert_column with as many values as the table has rows.
InsertColumnExact ==
  \E column \in Keys, values \in SeqsUpTo(Values, MaxLen) :
    /\ Len(values_vector) + Len(values) <= MaxLen
    /\ IF DivByZero(indices_table) THEN values = <<>>
       ELSE Len(values) = rows_len(indices_table, values_vector)
    /\ Apply("insert_column", [column |-> column, values |-> values],
             insert_column(indices_table, values_vector, column, values))

\* The program whose every call keeps to the documented preconditions.
NextDocumented ==
  \/ WithColumns
  \/ FromColumnKeysAndRows
  \/ PushRowExact
  \/ PushRowWith
  \/ RemoveRow
  \/ RemoveRowHashmap
  \/ InsertColumnExact
  \/ RemoveColumn
  \/ RemoveThenInsertColumn
  \/ Get
  \/ GetMut
  \/ Release

SpecDocumented == Init /\ [][NextDocumented]_vars

\* ------------------------------------------------------ get_row, get_column
\* HashTableRowBorrowed: the map and the slice of the buffer the row borrows.
RowBorrowed(it, row_values) == [indices_table |-> it, row_values |-> row_values]

get_row(it, vv, row) ==
  IF DivByZero(it) THEN Panic
  ELSE IF row >= rows_len(it, vv) THEN None
  ELSE Some(RowBorrowed(it, VecSlice(vv, row_start(it, row),
                                     row_start(it, row) + columns_len(it))))

\* HashTableColumnBorrowed { column, values }: chunk[idx] of every whole chunk of
\* columns_len values; an idx outside the chunk panics.
get_column(it, vv, column) ==
  IF column \notin DOMAIN it THEN None
  ELSE IF Len(vv) \div columns_len(it) > 0 /\ it[column] >= columns_len(it) THEN Panic
  ELSE Some([column |-> column,
             values |-> [c \in 1..(Len(vv) \div columns_len(it)) |->
                           vv[(c - 1) * columns_len(it) + it[column] + 1]]])

GetRow ==
  \E row \in RowArgs(Cardinality(DOMAIN indices_table), Len(values_vector)) :
    Apply("get_row", [row |-> row],
          Result(indices_table, values_vector, get_row(indices_table, values_vector, row)))

GetColumn ==
  \E column \in Keys :
    Apply("get_column", [column |-> column],
          Result(indices_table, values_vector,
                 get_column(indices_table, values_vector, column)))

\* The program that builds a table, looks into it and takes rows and columns
\* out of it, every call as its documentation asks.
NextViews ==
  \/ WithColumns
  \/ FromColumnKeysAndRows
  \/ PushRowExact
  \/ RemoveRow
  \/ RemoveColumn
  \/ Get
  \/ GetRow
  \/ GetColumn
  \/ Release

SpecViews == Init /\ [][NextViews]_vars

\* ----------------------------------------------------- iteration: the views
\* The orders in which a HashMap can yield its entries: every key once, in an
\* order that is unspecified.
EntryOrders(it) ==
  {ks \in [1..columns_len(it) -> DOMAIN it] :
     \A k \in DOMAIN it : \E j \in 1..columns_len(it) : ks[j] = k}

\* HashTableRowValueOwned::into_iter().collect(): every entry (k, i) of the map
\* takes values[i]; an index outside the values panics, and so does a value
\* that another key with the same slot took before.
RowValueOwned_into_map(r) ==
  IF \E k \in DOMAIN r.parent_indices_table :
       r.parent_indices_table[k] >= Len(r.values)
  THEN Panic
  ELSE IF \E k1, k2 \in DOMAIN r.parent_indices_table :
            k1 # k2 /\ r.parent_indices_table[k1] = r.parent_indices_table[k2]
       THEN Panic
       ELSE Some([k \in DOMAIN r.parent_indices_table |->
                    r.values[r.parent_indices_table[k] + 1]])

\* HashTableIntoIter::next on the table the iterator owns.
into_iter_next(it, vv) ==
  IF DivByZero(it) THEN Result(it, vv, Panic)
  ELSE IF rows_len(it, vv) = 0 THEN Result(it, vv, None)
  ELSE LET removed == remove_row(it, vv, rows_len(it, vv) - 1)
       IN  IF IsSome(removed.ret)
           THEN Result(removed.indices_table, removed.values_vector,
                       RowValueOwned_into_map(removed.ret.val))
           ELSE removed

\* HashTable::into_iter: the iterator owns the table; items is what it yielded.
into_iter(it, vv) ==
  [kind |-> "into_iter", table |-> Table(it, vv), items |-> <<>>]

\* HashTable::into_iter_columns; order is the order the map yields its entries in.
into_iter_columns(it, vv, order) ==
  [kind |-> "into_iter_columns", table |-> Table(it, vv), items |-> <<>>,
   row_len |-> columns_len(it),
   indices_iter |-> [j \in 1..Len(order) |-> <<order[j], it[order[j]]>>],
   values |-> [j \in 1..Len(vv) |-> Some(vv[j])]]

\* HashTable::iter_columns
iter_columns(it, vv, order) ==
  [kind |-> "iter_columns", table |-> Table(it, vv), items |-> <<>>,
   row_len |-> columns_len(it),
   indices_iter |-> [j \in 1..Len(order) |-> <<order[j], it[order[j]]>>],
   values |-> vv]

\* chunks_exact(row_len): the number of whole chunks, and where chunk[idx] of
\* chunk c (from 0) is in the sequence.
ChunksExact(values, row_len) == Len(values) \div row_len
ChunkPlace(row_len, c, idx) == c * row_len + idx + 1

\* HashTableOwnedIntoIterColumn::next: the iterator it leaves and what it returns.
into_iter_columns_next(i) ==
  IF i.indices_iter = <<>> THEN [iter |-> i, ret |-> None]
  ELSE LET key == Head(i.indices_iter)[1]
           idx == Head(i.indices_iter)[2]
           chunks == ChunksExact(i.values, i.row_len)
           advanced == [i EXCEPT !.indices_iter = Tail(@)]
       IN  IF chunks > 0 /\ idx >= i.row_len
           THEN [iter |-> advanced, ret |-> Panic]   \* chunk[idx]: index out of bounds
           ELSE IF \E c \in 0..(chunks - 1) : i.values[ChunkPlace(i.row_len, c, idx)] = None
                THEN [iter |-> advanced, ret |-> Panic]   \* "Each column is accessed only once"
                ELSE [iter |-> [advanced EXCEPT
                                  !.values = [j \in 1..Len(i.values) |->
                                                IF \E c \in 0..(chunks - 1) :
                                                     j = ChunkPlace(i.row_len, c, idx)
                                                THEN None ELSE i.values[j]]],
                      ret |-> Some([key |-> key,
                                    values |-> [c \in 1..chunks |->
                                      i.values[ChunkPlace(i.row_len, c - 1, idx)].val]])]

\* HashTableBorrowedIterColumn::next
iter_columns_next(i) ==
  IF i.indices_iter = <<>> THEN [iter |-> i, ret |-> None]
  ELSE LET key == Head(i.indices_iter)[1]
           idx == Head(i.indices_iter)[2]
           chunks == ChunksExact(i.values, i.row_len)
           advanced == [i EXCEPT !.indices_iter = Tail(@)]
       IN  IF chunks > 0 /\ idx >= i.row_len
           THEN [iter |-> advanced, ret |-> Panic]   \* chunk[*idx]: index out of bounds
           ELSE [iter |-> advanced,
                 ret |-> Some([column |-> key,
                               values |-> [c \in 1..chunks |->
                                 i.values[ChunkPlace(i.row_len, c - 1, idx)]]])]

\* A call that makes an iterator or asks one for its next item.
IterStep(name, r, i) ==
  /\ op' = name
  /\ args' = NoArgs
  /\ pre' = Table(indices_table, values_vector)
  /\ indices_table' = r.indices_table
  /\ values_vector' = r.values_vector
  /\ ret' = r.ret
  /\ iter' = i

\* What an iterator has yielded, with the item it returns now.
Yielded(i, r) == IF IsSome(r) THEN [i EXCEPT !.items = Append(@, r.val)] ELSE i

\* An iterator is made of a table that exists and that nothing else uses.
CanIterate == iter = NoIter /\ ret.tag # "Panic"

IntoIter ==
  /\ CanIterate
  /\ IterStep("into_iter", Result(indices_table, values_vector, None),
              into_iter(indices_table, values_vector))

IntoIterNext ==
  /\ iter.kind = "into_iter" /\ ret.tag # "Panic"
  /\ LET r == into_iter_next(indices_table, values_vector)
     IN  IterStep("into_iter_next", r, Yielded(iter, r.ret))

IntoIterColumns ==
  /\ CanIterate
  /\ \E order \in EntryOrders(indices_table) :
       IterStep("into_iter_columns", Result(indices_table, values_vector, None),
                into_iter_columns(indices_table, values_vector, order))

IntoIterColumnsNext ==
  /\ iter.kind = "into_iter_columns" /\ ret.tag # "Panic"
  /\ LET n == into_iter_columns_next(iter)
     IN  IterStep("into_iter_columns_next",
                  Result(indices_table, values_vector, n.ret), Yielded(n.iter, n.ret))

IterColumns ==
  /\ CanIterate
  /\ \E order \in EntryOrders(indices_table) :
       IterStep("iter_columns", Result(indices_table, values_vector, None),
                iter_columns(indices_table, values_vector, order))

IterColumnsNext ==
  /\ iter.kind = "iter_columns" /\ ret.tag # "Panic"
  /\ LET n == iter_columns_next(iter)
     IN  IterStep("iter_columns_next",
                  Result(indices_table, values_vector, n.ret), Yielded(n.iter, n.ret))

\* The program that builds a table and iterates over it.
NextIter ==
  \/ WithColumns
  \/ FromColumnKeysAndRows
  \/ IntoIter
  \/ IntoIterNext
  \/ IntoIterColumns
  \/ IntoIterColumnsNext
  \/ IterColumns
  \/ IterColumnsNext

SpecIter == Init /\ [][NextIter]_vars

\* ----------------------------------------------- construction from iterators
\* from_column_iter: the loop over the values of column i, from value `row` on.
\* Vec::insert panics when the index is past the end.
RECURSIVE from_column_iter_values(_, _, _, _)
from_column_iter_values(vv, col_values, row, i) ==
  IF col_values = <<>> THEN Some(vv)
  ELSE IF (row + 1) * (i + 1) > Len(vv) THEN Panic
  ELSE from_column_iter_values(VecInsert(vv, (row + 1) * (i + 1), Head(col_values)),
                               Tail(col_values), row + 1, i)

\* from_column_iter: the loop over the columns, from column i on; a column is a
\* (key, values) pair and expected_length is None before the first column.
RECURSIVE from_column_iter_loop(_, _, _, _, _)
from_column_iter_loop(indices, result_values, columns, i, expected_length) ==
  IF columns = <<>> THEN Result(indices, result_values, None)
  ELSE LET key == Head(columns)[1]
           col_values == Head(columns)[2]
           expected == IF IsSome(expected_length) THEN expected_length
                       ELSE Some(Len(col_values))
           inserted == [k \in DOMAIN indices \cup {key} |->
                          IF k = key THEN i ELSE indices[k]]
           filled == from_column_iter_values(result_values, col_values, 0, i)
       IN  IF Len(col_values) # expected.val THEN Result(EmptyMap, <<>>, Panic)
           ELSE IF ~IsSome(filled) THEN Result(EmptyMap, <<>>, Panic)
           ELSE from_column_iter_loop(inserted, filled.val, Tail(columns), i + 1, expected)

from_column_iter(columns) == from_column_iter_loop(EmptyMap, <<>>, columns, 0, None)

\* The row buffer left in the order the row supplied its pairs in.
SortRowBufAsSupplied(row_buf) == row_buf

\* row_buf.sort_by_key(|(i, _)| *i), a stable sort of (index, value) pairs
SortRowBuf(row_buf) ==
  [n \in 1..Len(row_buf) |->
     row_buf[CHOOSE j \in 1..Len(row_buf) :
       n = 1 + Cardinality({i \in 1..Len(row_buf) :
                 \/ row_buf[i][1] < row_buf[j][1]
                 \/ row_buf[i][1] = row_buf[j][1] /\ i < j})]]

\* The row buffer with every pair kept, repeated indices included.
DedupRowBufKeepsAll(row_buf) == row_buf

\* row_buf.dedup_by_key(|(i, _)| *i): of consecutive pairs with the same index
\* the first stays.
DedupRowBuf(row_buf) ==
  LET kept == {j \in 1..Len(row_buf) : j = 1 \/ row_buf[j][1] # row_buf[j - 1][1]}
  IN  [n \in 1..Cardinality(kept) |->
         row_buf[CHOOSE j \in kept : Cardinality({i \in kept : i <= j}) = n]]

\* FromIterator::from_iter: the loop over the rows after the first.
RECURSIVE from_iter_loop(_, _, _)
from_iter_loop(keys, values, rows) ==
  IF rows = <<>> THEN Result(keys, values, None)
  ELSE LET row == Head(rows)
       IN  IF \E j \in 1..Len(row) : row[j][1] \notin DOMAIN keys
           THEN Result(EmptyMap, <<>>, Panic)   \* key not present in the first row
           ELSE LET row_buf == DedupRowBuf(SortRowBuf(
                                 [j \in 1..Len(row) |-> <<keys[row[j][1]], row[j][2]>>]))
                IN  IF Len(row_buf) # columns_len(keys)
                    THEN Result(EmptyMap, <<>>, Panic)   \* row length mismatch
                    ELSE from_iter_loop(keys,
                                        values \o [j \in 1..Len(row_buf) |-> row_buf[j][2]],
                                        Tail(rows))

\* from_iter that reads every row after the first from its last pair to its
\* first, so that of a repeated key the value supplied last stays.
FromIterKeepsLast(rows) ==
  IF rows = <<>> THEN Result(EmptyMap, <<>>, None)
  ELSE from_iter_loop(indices_table_from_iterator([j \in 1..Len(rows[1]) |-> rows[1][j][1]]),
                      [j \in 1..Len(rows[1]) |-> rows[1][j][2]],
                      [r \in 1..(Len(rows) - 1) |->
                         [j \in 1..Len(rows[r + 1]) |->
                            rows[r + 1][Len(rows[r + 1]) + 1 - j]]])

\* impl FromIterator<R> for HashTable; a row is a sequence of (key, value) pairs.
from_iter(rows) ==
  IF rows = <<>> THEN Result(EmptyMap, <<>>, None)
  ELSE from_iter_loop(indices_table_from_iterator([j \in 1..Len(rows[1]) |-> rows[1][j][1]]),
                      [j \in 1..Len(rows[1]) |-> rows[1][j][2]],
                      Tail(rows))

\* HashTableVisitor::visit_seq: push_row of every element on an empty table.  An
\* element is a HashMap; a row here is its entries in the order it yields them.
RECURSIVE visit_seq_loop(_, _, _)
visit_seq_loop(it, vv, rows) ==
  IF rows = <<>> THEN Result(it, vv, None)
  ELSE visit_seq_loop(it, push_row(it, vv, Head(rows)).values_vector, Tail(rows))

visit_seq(rows) == visit_seq_loop(EmptyMap, <<>>, rows)

\* The keys of a row are all different, as the entries of a HashMap are.
DistinctKeys(row) == \A i, j \in 1..Len(row) : i # j => row[i][1] # row[j][1]

\* The inputs: the rows cut out of a sequence of pairs, lens[i] pairs for row i.
RECURSIVE SumSeq(_)
SumSeq(lens) == IF lens = <<>> THEN 0 ELSE Head(lens) + SumSeq(Tail(lens))
SplitRows(flat, lens) ==
  [i \in 1..Len(lens) |->
     VecSlice(flat, SumSeq(VecSlice(lens, 0, i - 1)), SumSeq(VecSlice(lens, 0, i)))]
RowLens == {lens \in SeqsUpTo(0..MaxPairs, MaxLen - 1) : SumSeq(lens) <= MaxLen}
\* The columns handed to from_column_iter.
ColumnInputs == SeqsUpTo(Keys \X SeqsUpTo(Values, MaxLen - 2), Cardinality(Keys))

FromColumnIter ==
  /\ op = "default"
  /\ \E columns \in ColumnInputs :
       Apply("from_column_iter", [columns |-> columns], from_column_iter(columns))

FromIter ==
  /\ op = "default"
  /\ \E lens \in RowLens : \E flat \in [1..SumSeq(lens) -> Keys \X Values] :
       Apply("from_iter", [rows |-> SplitRows(flat, lens)],
             from_iter(SplitRows(flat, lens)))

VisitSeq ==
  /\ op = "default"
  /\ \E lens \in RowLens : \E flat \in [1..SumSeq(lens) -> Keys \X Values] :
       /\ \A i \in 1..Len(lens) : DistinctKeys(SplitRows(flat, lens)[i])
       /\ Apply("visit_seq", [rows |-> SplitRows(flat, lens)],
                visit_seq(SplitRows(flat, lens)))

\* The program that builds a table from its input.
NextBuild ==
  \/ WithColumns
  \/ FromColumnKeysAndRows
  \/ FromColumnIter
  \/ FromIter
  \/ VisitSeq

SpecBuild == Init /\ [][NextBuild]_vars

\* ------------------------------------------- rows_len, get_row_mut, Index
\* A call of rows_len(): the division panics on a table without columns.
RowsLenCall(it, vv) == IF DivByZero(it) THEN Panic ELSE Some(rows_len(it, vv))

\* HashTableMutableBorrowedRow: the map and the part of the buffer, from place
\* `start` on, the row borrows mutably.
MutableBorrowedRow(it, start, values) ==
  [indices_table |-> it, start |-> start, values |-> values]

get_row_mut(it, vv, row) ==
  IF DivByZero(it) THEN Panic
  ELSE IF row >= rows_len(it, vv) THEN None
  ELSE Some(MutableBorrowedRow(it, columns_len(it) * row,
                               VecSlice(vv, columns_len(it) * row,
                                        columns_len(it) * row + columns_len(it))))

\* Index::index: self.get(index.0, index.1).unwrap()
index(it, vv, column, row) ==
  IF IsSome(get(it, vv, column, row)) THEN get(it, vv, column, row) ELSE Panic

\* IndexMut::index_mut: self.get_mut(index.0, index.1).unwrap(), the place of
\* the element.
index_mut(it, vv, column, row) ==
  IF IsSome(get_mut(it, vv, column, row)) THEN get_mut(it, vv, column, row) ELSE Panic

\* table[(column, row)] = value
write_index_mut(it, vv, column, row, value) ==
  IF IsSome(index_mut(it, vv, column, row))
  THEN Result(it, [vv EXCEPT ![index_mut(it, vv, column, row).val + 1] = value],
              index_mut(it, vv, column, row))
  ELSE Result(it, vv, Panic)

\* HashTableRowBorrowed::get: row_values[i] panics when i is outside the row.
RowBorrowed_get(r, column) ==
  IF column \notin DOMAIN r.indices_table THEN None
  ELSE IF r.indices_table[column] >= Len(r.row_values) THEN Panic
  ELSE Some(r.row_values[r.indices_table[column] + 1])

\* HashTableRowBorrowed::into_iter().collect(): the (key, value) pairs of the row
\* in the order the map yields its entries; values[idx] panics outside the row.
RowBorrowed_into_pairs(r, order) ==
  IF \E j \in 1..Len(order) : r.indices_table[order[j]] >= Len(r.row_values)
  THEN Panic
  ELSE Some([j \in 1..Len(order) |->
               <<order[j], r.row_values[r.indices_table[order[j]] + 1]>>])

\* --------------------------------------------- iteration: iter, element-wise
\* HashTable::iter: the cursor `row` starts at 0.
iter_(it, vv) ==
  [kind |-> "iter", table |-> Table(it, vv), items |-> <<>>, row |-> 0]

\* HashTableBorrowedIter::next: get_row(self.row)?; self.row += 1
iter_next(i) ==
  LET val == get_row(i.table.indices_table, i.table.values_vector, i.row)
  IN  IF IsSome(val) THEN [iter |-> [i EXCEPT !.row = @ + 1], ret |-> val]
      ELSE [iter |-> i, ret |-> val]

\* HashTableBorrowedIter::size_hint: rows_len() - self.row, both bounds
iter_size_hint(i) ==
  IF DivByZero(i.table.indices_table) THEN Panic
  ELSE Some(rows_len(i.table.indices_table, i.table.values_vector) - i.row)

\* table.iter().collect::<HashTable<_, _>>(): every row the iterator yielded is
\* turned into its pairs, orders[n] being the order the map yields its entries
\* in for item n, and the rows are collected by from_iter.
iter_collect(items, orders) ==
  IF \E n \in 1..Len(items) : RowBorrowed_into_pairs(items[n], orders[n]) = Panic
  THEN Result(EmptyMap, <<>>, Panic)
  ELSE from_iter([n \in 1..Len(items) |-> RowBorrowed_into_pairs(items[n], orders[n]).val])

\* TableOwnedIterWrapper<K, V, ElementsReverse>::into_iter
elements_reverse(it, vv) ==
  [kind |-> "elements_reverse", table |-> Table(it, vv), items |-> <<>>]

\* The key find_map returns: the first entry, in the order the map yields them,
\* whose slot is col_idx; None when there is none.
FindKeyOfSlot(it, order, col_idx) ==
  IF \E j \in 1..Len(order) : it[order[j]] = col_idx
  THEN Some(order[CHOOSE j \in 1..Len(order) :
               /\ it[order[j]] = col_idx
               /\ \A i \in 1..(j - 1) : it[order[i]] # col_idx])
  ELSE None

\* TableElementWiseReverseOwnedIter::next on the table the iterator owns.
elements_reverse_next(it, vv, order) ==
  IF vv = <<>> THEN Result(it, vv, None)
  ELSE IF DivByZero(it) THEN Result(it, vv, Panic)   \* self.table.rows_len()
  ELSE LET columns == columns_len(it)
           row_idx == IF Len(vv) = columns * rows_len(it, vv)
                      THEN rows_len(it, vv) - 1
                      ELSE rows_len(it, vv)
           val == vv[Len(vv)]
           popped == VecSlice(vv, 0, Len(vv) - 1)
           col_key == FindKeyOfSlot(it, order, Len(popped) % columns)
       IN  IF IsSome(col_key)
           THEN Result(it, popped, Some(<<<<col_key.val, row_idx>>, val>>))
           ELSE Result(it, popped, None)

RowsLen ==
  Apply("rows_len", NoArgs,
        Result(indices_table, values_vector, RowsLenCall(indices_table, values_vector)))

GetRowMut ==
  \E row \in RowArgs(Cardinality(DOMAIN indices_table), Len(values_vector)) :
    Apply("get_row_mut", [row |-> row],
          Result(indices_table, values_vector,
                 get_row_mut(indices_table, values_vector, row)))

Index ==
  \E column \in Keys, row \in RowArgs(Cardinality(DOMAIN indices_table), Len(values_vector)) :
    Apply("index", [column |-> column, row |-> row],
          Result(indices_table, values_vector,
                 index(indices_table, values_vector, column, row)))

IndexMut ==
  \E column \in Keys, row \in RowArgs(Cardinality(DOMAIN indices_table), Len(values_vector)),
     value \in Values :
    Apply("index_mut", [column |-> column, row |-> row, value |-> value],
          write_index_mut(indices_table, values_vector, column, row, value))

Iter ==
  /\ CanIterate
  /\ IterStep("iter", Result(indices_table, values_vector, None),
              iter_(indices_table, values_vector))

IterNext ==
  /\ iter.kind = "iter" /\ op \in {"iter", "iter_next"} /\ ret.tag # "Panic"
  /\ LET n == iter_next(iter)
     IN  IterStep("iter_next", Result(indices_table, values_vector, n.ret),
                  Yielded(n.iter, n.ret))

IterCollect ==
  /\ iter.kind = "iter" /\ op = "iter_next" /\ ret = None
  /\ \E orders \in [1..Len(iter.items) -> EntryOrders(indices_table)] :
       IterStep("iter_collect", iter_collect(iter.items, orders), iter)

ElementsReverse ==
  /\ CanIterate
  /\ IterStep("elements_reverse", Result(indices_table, values_vector, None),
              elements_reverse(indices_table, values_vector))

ElementsReverseNext ==
  /\ iter.kind = "elements_reverse" /\ ret.tag # "Panic"
  /\ \E order \in EntryOrders(indices_table) :
       LET r == elements_reverse_next(indices_table, values_vector, order)
       IN  IterStep("elements_reverse_next", r, Yielded(iter, r.ret))

\* The program that builds a table, takes rows out of it and puts rows into it
\* as the documentation asks, and reads it through every view and iterator.
NextAccess ==
  \/ WithColumns
  \/ FromColumnKeysAndRows
  \/ PushRowExact
  \/ RemoveRow
  \/ RemoveRowHashmap
  \/ RowsLen
  \/ Get
  \/ GetRow
  \/ GetRowMut
  \/ GetColumn
  \/ Index
  \/ IndexMut
  \/ Iter
  \/ IterNext
  \/ IterCollect
  \/ ElementsReverse
  \/ ElementsReverseNext
  \/ Release

SpecAccess == Init /\ [][NextAccess]_vars

\* ------------------------------------------------ iteration of a mutable row
\* HashTableMutableBorrowedRow::into_iter: the entries of the map in the order
\* it yields them, and one Some(reference) per value of the row; a reference
\* is the place of the value in the buffer.
row_mut_into_iter(r, order) ==
  [kind |-> "row_mut", table |-> Table(r.indices_table, <<>>), items |-> <<>>,
   start |-> r.start,
   indices_table_iter |-> [j \in 1..Len(order) |-> <<order[j], r.indices_table[order[j]]>>],
   values |-> [j \in 1..Len(r.values) |-> Some(r.start + j - 1)]]

\* next that reads values[i] and leaves the reference where it is.
RowMutNextWithoutTake(i) ==
  IF i.indices_table_iter = <<>> THEN [iter |-> i, ret |-> None]
  ELSE LET k == Head(i.indices_table_iter)[1]
           idx == Head(i.indices_table_iter)[2]
           rest == [i EXCEPT !.indices_table_iter = Tail(@)]
       IN  IF idx >= Len(i.values) THEN [iter |-> rest, ret |-> Panic]
           ELSE IF i.values[idx + 1] = None THEN [iter |-> rest, ret |-> Panic]
           ELSE [iter |-> rest, ret |-> Some(<<k, i.values[idx + 1].val>>)]

\* HashTableMutableBorrowedRowIntoIter::next: values[i] panics outside the
\* row, take() leaves None behind, expect panics on a None.
row_mut_next(i) ==
  IF i.indices_table_iter = <<>> THEN [iter |-> i, ret |-> None]
  ELSE LET k == Head(i.indices_table_iter)[1]
           idx == Head(i.indices_table_iter)[2]
           rest == [i EXCEPT !.indices_table_iter = Tail(@)]
       IN  IF idx >= Len(i.values) THEN [iter |-> rest, ret |-> Panic]
           ELSE IF i.values[idx + 1] = None
                THEN [iter |-> [rest EXCEPT !.values[idx + 1] = None], ret |-> Panic]
           ELSE [iter |-> [rest EXCEPT !.values[idx + 1] = None],
                 ret |-> Some(<<k, i.values[idx + 1].val>>)]

RowMutIntoIter ==
  /\ op = "get_row_mut" /\ IsSome(ret) /\ iter = NoIter
  /\ \E order \in EntryOrders(indices_table) :
       IterStep("row_mut_into_iter", Result(indices_table, values_vector, None),
                [row_mut_into_iter(ret.val, order)
                   EXCEPT !.table = Table(indices_table, values_vector)])

RowMutNext ==
  /\ iter.kind = "row_mut" /\ ret.tag # "Panic"
  /\ LET n == row_mut_next(iter)
     IN  IterStep("row_mut_next", Result(indices_table, values_vector, n.ret),
                  Yielded(n.iter, n.ret))

\* The program that builds a table, takes rows out of it, and iterates its
\* rows mutably.
NextRowMut ==
  \/ WithColumns
  \/ FromColumnKeysAndRows
  \/ RemoveRow
  \/ GetRowMut
  \/ RowMutIntoIter
  \/ RowMutNext
  \/ Release

SpecRowMut == Init /\ [][NextRowMut]_vars

\* ------------------------------------------- iteration: column-wise, owning
\* TableOwnedIterWrapper<K, V, Column>::into_iter
column_wise(it, vv) ==
  [kind |-> "column_wise", table |-> Table(it, vv), items |-> <<>>]

\* TableColumnWiseOwnedIter::next on the table the iterator owns; key is the
\* key the map's keys() yields first.
column_wise_next(it, vv, key) == remove_column(it, vv, key)

ColumnWise ==
  /\ CanIterate
  /\ IterStep("column_wise", Result(indices_table, values_vector, None),
              column_wise(indices_table, values_vector))

ColumnWiseNext ==
  /\ iter.kind = "column_wise" /\ ret.tag # "Panic"
  /\ IF indices_table = EmptyMap
     THEN IterStep("column_wise_next", Result(indices_table, values_vector, None), iter)
     ELSE \E key \in DOMAIN indices_table :
            LET r == column_wise_next(indices_table, values_vector, key)
            IN  IterStep("column_wise_next", r, Yielded(iter, r.ret))

\* The program that builds a table and consumes it column by column.
NextColumnWise ==
  \/ WithColumns
  \/ FromColumnKeysAndRows
  \/ ColumnWise
  \/ ColumnWiseNext

SpecColumnWise == Init /\ [][NextColumnWise]_vars

\* ------------------------------------------- deserialization: column map
\* HashTableColumnVisitor::visit_map: insert_column of every entry on an empty
\* table (default and with_capacity(len, 0) are the same empty table).  An
\* entry is a key and its Vec of values.
RECURSIVE visit_map_loop(_, _, _)
visit_map_loop(it, vv, entries) ==
  IF entries = <<>> THEN Result(it, vv, None)
  ELSE LET inserted == insert_column(it, vv, Head(entries)[1], Head(entries)[2])
       IN  IF inserted.ret = Panic THEN inserted
           ELSE visit_map_loop(inserted.indices_table, inserted.values_vector,
                               Tail(entries))

visit_map(entries) == visit_map_loop(EmptyMap, <<>>, entries)

\* The map access yields every key once.
VisitMap ==
  /\ op = "default"
  /\ \E entries \in ColumnInputs :
       /\ DistinctKeys(entries)
       /\ Apply("visit_map", [entries |-> entries], visit_map(entries))

\* The program that deserializes a table, from either form.
NextDeserialize ==
  \/ VisitSeq
  \/ VisitMap

SpecDeserialize == Init /\ [][NextDeserialize]_vars

\* The program that builds a table from column keys or from rows and then
\* inserts columns.
NextKeys ==
  \/ WithColumns
  \/ FromColumnKeysAndRows
  \/ FromIter
  \/ InsertColumn
  \/ Release

SpecKeys == Init /\ [][NextKeys]_vars

\* =================================================================== claims
\* The table the last operation was applied to, and the table it left.
PreIt == pre.indices_table
PreVv == pre.values_vector
PreC == columns_len(PreIt)
PreR == rows_len(PreIt, PreVv)
Completed == ret.tag # "Panic"

\* Invariant 2 of the data model: the slots are exactly 0..columns_len-1.
SlotsContiguous(it) == {it[k] : k \in DOMAIN it} = 0..(columns_len(it) - 1)
\* Invariant 3 of the data model: the buffer holds whole rows only.
BufferWholeRows(it, vv) ==
  IF columns_len(it) = 0 THEN Len(vv) = 0 ELSE Len(vv) % columns_len(it) = 0
DataModel(it, vv) == SlotsContiguous(it) /\ BufferWholeRows(it, vv)

\* The operations of C1, each called as its documentation asks.
MutatingCall ==
  \/ op \in {"push_row_with", "remove_row", "remove_row_hashmap", "remove_column", "get_mut"}
  \/ op = "push_row" /\ ExactlyTheColumns(PreIt, args.row)
  \/ op = "insert_column" /\ PreC >= 1 /\ Len(args.values) = PreR

\* C1: after a public mutating operation on a table whose buffer holds whole
\* rows, the buffer still holds whole rows: its length is rows_len * columns_len,
\* and 0 when there are no columns.
C1_BufferLenIsRowsTimesColumns ==
  (MutatingCall /\ Completed /\ DataModel(PreIt, PreVv))
    => BufferWholeRows(indices_table, values_vector)

\* C2: after insert_column or remove_column on a table whose slots are exactly
\* 0..columns_len-1, the slots are again exactly 0..columns_len-1, one key each.
C2_SlotsStayContiguous ==
  (op \in {"insert_column", "remove_column"} /\ Completed /\ DataModel(PreIt, PreVv))
    => SlotsContiguous(indices_table)

\* C3: remove_row(r) with r < R on a table of C >= 1 columns returns row r (every
\* key mapped to the value it had in row r), leaves R - 1 rows, keeps the rows
\* below r and moves every row above r down by one.
C3_RemoveRowTakesThatRow ==
  (op = "remove_row" /\ DataModel(PreIt, PreVv) /\ PreC >= 1 /\ args.row < PreR)
    => /\ IsSome(ret)
       /\ \A k \in DOMAIN PreIt :
            RowValueOwned_get(ret.val, k) = get(PreIt, PreVv, k, args.row)
       /\ rows_len(indices_table, values_vector) = PreR - 1
       /\ \A k \in DOMAIN PreIt, r \in 0..(PreR - 1) :
            /\ r < args.row =>
                 get(indices_table, values_vector, k, r) = get(PreIt, PreVv, k, r)
            /\ r > args.row =>
                 get(indices_table, values_vector, k, r - 1) = get(PreIt, PreVv, k, r)

\* C4: insert_column(key, values) with a new key and exactly R values on a table
\* of C >= 1 columns gives the key slot C, makes get(key, r) the r-th value and
\* leaves every other element as it was.
C4_InsertColumnAppendsSlot ==
  (/\ op = "insert_column" /\ DataModel(PreIt, PreVv) /\ PreC >= 1
   /\ args.column \notin DOMAIN PreIt /\ Len(args.values) = PreR)
    => /\ Completed
       /\ args.column \in DOMAIN indices_table
       /\ indices_table[args.column] = PreC
       /\ \A r \in 0..(PreR - 1) :
            get(indices_table, values_vector, args.column, r) = Some(args.values[r + 1])
       /\ \A k \in DOMAIN PreIt, r \in 0..(PreR - 1) :
            get(indices_table, values_vector, k, r) = get(PreIt, PreVv, k, r)

\* C5: remove_column(key) of a column returns the key with the R values of the
\* column in row order; afterwards the key is gone, there is one column less,
\* every greater slot is one lower and every other element is as it was.
C5_RemoveColumnTakesThatColumn ==
  (op = "remove_column" /\ DataModel(PreIt, PreVv) /\ args.column \in DOMAIN PreIt)
    => /\ IsSome(ret)
       /\ ret.val.key = args.column
       /\ ret.val.values = [j \in 1..PreR |-> get(PreIt, PreVv, args.column, j - 1).val]
       /\ DOMAIN indices_table = DOMAIN PreIt \ {args.column}
       /\ \A k \in DOMAIN indices_table :
            indices_table[k] =
              IF PreIt[k] > PreIt[args.column] THEN PreIt[k] - 1 ELSE PreIt[k]
       /\ \A k \in DOMAIN indices_table, r \in 0..(PreR - 1) :
            get(indices_table, values_vector, k, r) = get(PreIt, PreVv, k, r)

\* C6: remove_column(key) followed by insert_column(key, the removed values)
\* gives back a table with the same columns and the same value at every
\* (key, row).
C6_RemoveThenInsertRestores ==
  (/\ op = "remove_then_insert_column" /\ DataModel(PreIt, PreVv)
   /\ args.column \in DOMAIN PreIt)
    => /\ Completed
       /\ DOMAIN indices_table = DOMAIN PreIt
       /\ \A k \in DOMAIN PreIt, r \in 0..(PreR - 1) :
            get(indices_table, values_vector, k, r) = get(PreIt, PreVv, k, r)

\* C7: on a table with key set K (not empty, slots 0..C-1) and R rows, push_row
\* with exactly one pair per key of K, in any order, leaves R + 1 rows, makes
\* get(k, R) the value paired with k and keeps rows 0..R-1.
C7_PushRowAppendsRow ==
  (/\ op = "push_row" /\ SlotsContiguous(PreIt) /\ PreC >= 1
   /\ ExactlyTheColumns(PreIt, args.row))
    => /\ Completed
       /\ indices_table = PreIt
       /\ rows_len(indices_table, values_vector) = PreR + 1
       /\ \A j \in 1..Len(args.row) :
            get(indices_table, values_vector, args.row[j][1], PreR) = Some(args.row[j][2])
       /\ \A k \in DOMAIN PreIt, r \in 0..(PreR - 1) :
            get(indices_table, values_vector, k, r) = get(PreIt, PreVv, k, r)

\* C7 restricted to the tables of the data model (slots 0..C-1, a buffer of
\* whole rows): there push_row does append the row as C7 says.
C7_OnDataModelTable ==
  DataModel(PreIt, PreVv) => C7_PushRowAppendsRow

\* C8: push_row fails loudly, appending nothing, when the keys of the supplied
\* pairs are not exactly the column keys (one missing, one unknown, one twice).
C8_PushRowRejectsMismatch ==
  (/\ op = "push_row" /\ DataModel(PreIt, PreVv) /\ PreC >= 1
   /\ args.row # <<>> /\ ~ExactlyTheColumns(PreIt, args.row))
    => ret = Panic /\ values_vector = PreVv

\* What get and get_mut are to find at (column, row) in a table.
InTable(it, vv, column, row) ==
  column \in DOMAIN it /\ row < rows_len(it, vv)
ElemPlace(it, column, row) == row * columns_len(it) + it[column]

\* C9: on a table whose slots are 0..C-1, get(key, row) is None when key is no
\* column or row >= rows_len, and otherwise the buffer element at
\* row * columns_len + slot(key); get_mut yields that same place, or None.
C9_GetContract ==
  /\ (op = "get" /\ SlotsContiguous(PreIt))
       => /\ indices_table = PreIt /\ values_vector = PreVv
          /\ IF InTable(PreIt, PreVv, args.column, args.row)
             THEN /\ ElemPlace(PreIt, args.column, args.row) < Len(PreVv)
                  /\ ret = Some(PreVv[ElemPlace(PreIt, args.column, args.row) + 1])
             ELSE ret = None
  /\ (op = "get_mut" /\ SlotsContiguous(PreIt))
       => IF InTable(PreIt, PreVv, args.column, args.row)
          THEN ret = Some(ElemPlace(PreIt, args.column, args.row))
          ELSE ret = None

\* C9 restricted to the tables of the data model: there get and get_mut do
\* what C9 says, for every key and every row in or out of range.
C9_OnDataModelTable ==
  DataModel(PreIt, PreVv) => C9_GetContract

\* C10: a value written through get_mut(key, row) is what the following
\* get(key, row) returns.
C10_GetMutThenGet ==
  (op = "get_mut" /\ IsSome(ret))
    => get(indices_table, values_vector, args.column, args.row) = Some(args.value)

\* C10's case: the write changes the element of a second row and second column.
C10_Witness ==
  /\ op = "get_mut" /\ IsSome(ret)
  /\ InTable(PreIt, PreVv, args.column, args.row)
  /\ DataModel(PreIt, PreVv) /\ PreC = 2 /\ PreR = 2
  /\ args.row = 1 /\ PreIt[args.column] = 1
  /\ get(PreIt, PreVv, args.column, args.row) # Some(args.value)
  /\ get(PreIt, PreVv, args.column, args.row) # get(PreIt, PreVv, args.column, 0)

\* ---------------------------------------------------------------- iteration
\* The table the iterator in use was made of.
IterIt == iter.table.indices_table
IterVv == iter.table.values_vector
\* The rows of a table as the data model counts them: none without columns.
Rows(it, vv) == IF columns_len(it) = 0 THEN 0 ELSE rows_len(it, vv)

\* C11: consuming a table of R rows (one or more columns, a buffer of whole
\* rows) with into_iter, next called until it returns None, never fails, yields
\* exactly R row maps, and every row map has exactly the column keys of the
\* table.
C11_IntoIterYieldsEveryRow ==
  (op = "into_iter_next" /\ DataModel(IterIt, IterVv) /\ columns_len(IterIt) >= 1)
    => /\ Completed
       /\ IsSome(ret) => DOMAIN ret.val = DOMAIN IterIt
       /\ Len(iter.items) <= Rows(IterIt, IterVv)
       /\ ret = None => Len(iter.items) = Rows(IterIt, IterVv)

\* The key of a yielded column: HashTableColumnOwned.key or
\* HashTableColumnBorrowed.column.
ColumnKey(c) == IF "key" \in DOMAIN c THEN c.key ELSE c.column

\* C12: traversing a table of C columns and R rows with into_iter_columns or
\* iter_columns, next called until it returns None, never fails and yields
\* exactly C columns, one per column key, each with exactly R values, the r-th
\* being the table's element at (key, r).
C12_ColumnTraversal ==
  (op \in {"into_iter_columns_next", "iter_columns_next"})
    => /\ Completed
       /\ IsSome(ret) =>
            /\ ColumnKey(ret.val) \in DOMAIN IterIt
            /\ Len(ret.val.values) = Rows(IterIt, IterVv)
            /\ \A r \in 0..(Rows(IterIt, IterVv) - 1) :
                 Some(ret.val.values[r + 1]) = get(IterIt, IterVv, ColumnKey(ret.val), r)
       /\ \A i, j \in 1..Len(iter.items) :
            i # j => ColumnKey(iter.items[i]) # ColumnKey(iter.items[j])
       /\ ret = None =>
            {ColumnKey(iter.items[j]) : j \in 1..Len(iter.items)} = DOMAIN IterIt

\* C12 restricted to the tables of the data model: there both column-wise
\* traversals do what C12 says.
C12_OnDataModelTable ==
  (op \in {"into_iter_columns_next", "iter_columns_next"}
     => DataModel(IterIt, IterVv)) => C12_ColumnTraversal

\* -------------------------------------------------------------- construction
Distinct(seq) == \A i, j \in 1..Len(seq) : i # j => seq[i] # seq[j]

ColumnsAlike(columns) ==
  /\ Distinct([i \in 1..Len(columns) |-> columns[i][1]])
  /\ \A i \in 1..Len(columns) : Len(columns[i][2]) = Len(columns[1][2])

\* C14: from_column_iter over columns with distinct keys and one length L gives a
\* table with exactly those keys, L rows and get(key_i, r) = values_i[r].
C14_FromColumnIter ==
  (op = "from_column_iter" /\ Len(args.columns) >= 1 /\ ColumnsAlike(args.columns))
    => /\ Completed
       /\ DOMAIN indices_table = {args.columns[i][1] : i \in 1..Len(args.columns)}
       /\ rows_len(indices_table, values_vector) = Len(args.columns[1][2])
       /\ \A i \in 1..Len(args.columns), r \in 0..(Len(args.columns[1][2]) - 1) :
            get(indices_table, values_vector, args.columns[i][1], r)
              = Some(args.columns[i][2][r + 1])

\* The rows handed to the row-wise collection all list the keys of the first row,
\* each once; there is a row and a key.
RowsAlike(rows) ==
  /\ Len(rows) >= 1 /\ Len(rows[1]) >= 1
  /\ \A r \in 1..Len(rows) : DistinctKeys(rows[r]) /\ PairKeys(rows[r]) = PairKeys(rows[1])

C16_FromIterRejects ==
  (/\ op = "from_iter"
   /\ \E r \in 2..Len(args.rows) : PairKeys(args.rows[r]) # PairKeys(args.rows[1]))
    => ret = Panic /\ indices_table = EmptyMap /\ values_vector = <<>>

\* C16's case: the first row has two keys, the second row lists one of them
\* twice and lacks the other.
C16_Witness ==
  /\ op = "from_iter" /\ ret = Panic
  /\ Len(args.rows) = 2 /\ DistinctKeys(args.rows[1]) /\ Len(args.rows[1]) = 2
  /\ Len(args.rows[2]) = 2 /\ args.rows[2][1][1] = args.rows[2][2][1]
  /\ args.rows[2][1][1] \in PairKeys(args.rows[1])

\* C20: deserializing a sequence of R rows that all have the key set K (not
\* empty) gives a table with the column keys K, R rows, and get(k, r) the value
\* row r maps k to.
C20_VisitSeqBuildsTable ==
  (op = "visit_seq" /\ RowsAlike(args.rows))
    => /\ Completed
       /\ DOMAIN indices_table = PairKeys(args.rows[1])
       /\ rows_len(indices_table, values_vector) = Len(args.rows)
       /\ \A r \in 1..Len(args.rows) : \A j \in 1..Len(args.rows[r]) :
            get(indices_table, values_vector, args.rows[r][j][1], r - 1)
              = Some(args.rows[r][j][2])

\* ------------------------------------------------------- absence and failure
\* C17: remove_row(0) on a table of one row and C >= 1 columns leaves rows_len 0
\* and every column key still a column, its get_column of length 0.
C17_RemoveOnlyRow ==
  (op = "remove_row" /\ args.row = 0 /\ PreC >= 1 /\ PreR = 1)
    => /\ Completed
       /\ DOMAIN indices_table = DOMAIN PreIt
       /\ rows_len(indices_table, values_vector) = 0
       /\ \A k \in DOMAIN PreIt :
            /\ IsSome(get_column(indices_table, values_vector, k))
            /\ Len(get_column(indices_table, values_vector, k).val.values) = 0

\* C17 restricted to the tables of the data model: there rows_len is 0 and the
\* columns have length 0 after the only row is removed.
C17_OnDataModelTable ==
  DataModel(PreIt, PreVv) => C17_RemoveOnlyRow

\* The table is as the last call found it.
TableUnchanged == indices_table = PreIt /\ values_vector = PreVv

\* C18: on a table of the data model, remove_row with row >= rows_len and
\* remove_column with a key that is no column return None and leave the map and
\* the buffer as they were; get, get_row and get_column with a key that is no
\* column or a row >= rows_len return None and change nothing.
C18_AbsenceHasNoEffect ==
  DataModel(PreIt, PreVv) =>
    /\ (op \in {"remove_row", "get_row"} /\ args.row >= Rows(PreIt, PreVv))
         => ret = None /\ TableUnchanged
    /\ (op \in {"remove_column", "get_column"} /\ args.column \notin DOMAIN PreIt)
         => ret = None /\ TableUnchanged
    /\ (op = "get" /\ (args.column \notin DOMAIN PreIt \/ args.row >= Rows(PreIt, PreVv)))
         => ret = None /\ TableUnchanged

\* C18 on the tables that have a column: there absence never has an effect.
C18_OnTableWithColumns ==
  PreC >= 1 => C18_AbsenceHasNoEffect

\* C19: insert_column of a new key with fewer values than the table has rows
\* fails before it changes anything: the map is without the key and the buffer
\* is as it was.
C19_InsertColumnShortFails ==
  (/\ op = "insert_column" /\ DataModel(PreIt, PreVv) /\ PreC >= 1
   /\ args.column \notin DOMAIN PreIt /\ Len(args.values) < PreR)
    => ret = Panic /\ TableUnchanged

\* ----------------------------------------------------------- deserialization
\* C21: deserializing the row-sequence form fails, giving no table, when a
\* row's key set differs from the key set of the first row.
C21_VisitSeqRejects ==
  (/\ op = "visit_seq"
   /\ \E r \in 2..Len(args.rows) : PairKeys(args.rows[r]) # PairKeys(args.rows[1]))
    => ~Completed

\* ------------------------------------------------------- views and iterators
\* C22: the rows that iter() yields of a table T, each turned into its (key,
\* value) pairs and all collected by the row-wise FromIterator, give a table
\* with the rows_len of T, the column keys of T and the value of T at every
\* (key, row); neither the iteration nor the collecting fails.
C22_RowRoundTrip ==
  /\ op = "iter_next" => Completed
  /\ op = "iter_collect" =>
       /\ Completed
       /\ Rows(indices_table, values_vector) = Rows(IterIt, IterVv)
       /\ DOMAIN indices_table = DOMAIN IterIt
       /\ \A k \in DOMAIN IterIt, r \in 0..(Rows(IterIt, IterVv) - 1) :
            get(indices_table, values_vector, k, r) = get(IterIt, IterVv, k, r)

\* C22 restricted to the tables of the data model that have a row: there the
\* round trip gives the table back.
C22_OnDataModelTableWithRows ==
  (op \in {"iter_next", "iter_collect"}
     => DataModel(IterIt, IterVv) /\ Rows(IterIt, IterVv) >= 1) => C22_RowRoundTrip

\* A round trip of two rows and two columns.
C22_RoundTripOfTwoRows ==
  /\ op = "iter_collect" /\ Completed /\ DataModel(IterIt, IterVv)
  /\ columns_len(IterIt) = 2 /\ Rows(IterIt, IterVv) = 2
  /\ IterVv[1] # IterVv[2]

\* C23: on a table whose slots are 0..C-1, table[(key, row)] and the mutable
\* table[(key, row)] are the element get and get_mut give when key is a column
\* and row < rows_len; otherwise they panic and the table is as it was.
C23_IndexContract ==
  SlotsContiguous(PreIt) =>
  /\ op = "index" =>
       /\ TableUnchanged
       /\ IF InTable(PreIt, PreVv, args.column, args.row)
          THEN IsSome(ret) /\ ret = get(PreIt, PreVv, args.column, args.row)
          ELSE ret = Panic
  /\ op = "index_mut" =>
       IF InTable(PreIt, PreVv, args.column, args.row)
       THEN /\ IsSome(ret) /\ ret = get_mut(PreIt, PreVv, args.column, args.row)
            /\ indices_table = PreIt
            /\ get(indices_table, values_vector, args.column, args.row) = Some(args.value)
       ELSE ret = Panic /\ TableUnchanged

\* C23 restricted to the tables of the data model: there the operators return
\* the element or panic as C23 says.
C23_OnDataModelTable ==
  DataModel(PreIt, PreVv) => C23_IndexContract

\* Both outcomes of the operators on a table of two columns and two rows.
C23_IndexReturns ==
  /\ op = "index_mut" /\ IsSome(ret) /\ DataModel(PreIt, PreVv)
  /\ PreC = 2 /\ args.row = 1 /\ PreIt[args.column] = 1
C23_IndexPanics ==
  /\ op = "index" /\ ret = Panic /\ DataModel(PreIt, PreVv)
  /\ args.column \in DOMAIN PreIt /\ args.row = PreR /\ PreR >= 1

\* C24: on a table without columns and without values rows_len() is 0,
\* get_row, get_row_mut, remove_row and remove_row_hashmap return None for every
\* row index, and the first next of iter() returns None.
C24_ZeroColumnTable ==
  /\ (op = "rows_len" /\ PreIt = EmptyMap /\ PreVv = <<>>) => ret = Some(0)
  /\ (/\ op \in {"get_row", "get_row_mut", "remove_row", "remove_row_hashmap"}
      /\ PreIt = EmptyMap /\ PreVv = <<>>) => ret = None
  /\ (op = "iter_next" /\ IterIt = EmptyMap /\ IterVv = <<>>) => ret = None

\* C25: get_column(key) is None when key is no column, and otherwise a view of
\* exactly rows_len values, the r-th being get(key, r); get_row(r) with
\* r < rows_len is a view whose get(k) is get(k, r) for every column key k.
C25_ViewsShowTheTable ==
  /\ op = "get_column" =>
       IF args.column \notin DOMAIN PreIt THEN ret = None
       ELSE /\ IsSome(ret)
            /\ Len(ret.val.values) = Rows(PreIt, PreVv)
            /\ \A r \in 0..(Rows(PreIt, PreVv) - 1) :
                 Some(ret.val.values[r + 1]) = get(PreIt, PreVv, args.column, r)
  /\ (op = "get_row" /\ PreC >= 1 /\ args.row < Rows(PreIt, PreVv)) =>
       /\ IsSome(ret)
       /\ \A k \in DOMAIN PreIt :
            /\ IsSome(RowBorrowed_get(ret.val, k))
            /\ RowBorrowed_get(ret.val, k) = get(PreIt, PreVv, k, args.row)

\* C25 restricted to the tables of the data model: there both views show the
\* elements of the table.
C25_OnDataModelTable ==
  DataModel(PreIt, PreVv) => C25_ViewsShowTheTable

\* The views of a table of two columns and two rows with different values.
C25_ColumnOfTwoRows ==
  /\ op = "get_column" /\ IsSome(ret) /\ DataModel(PreIt, PreVv)
  /\ PreC = 2 /\ PreR = 2 /\ PreIt[args.column] = 1
  /\ ret.val.values[1] # ret.val.values[2]
C25_SecondRow ==
  /\ op = "get_row" /\ IsSome(ret) /\ DataModel(PreIt, PreVv)
  /\ PreC = 2 /\ PreR = 2 /\ args.row = 1
  /\ PreVv[1] # PreVv[3]

\* C26: into_iter on a table of R rows (one or more columns, a buffer of whole
\* rows) yields the rows from last to first: item n, counted from 0, maps every
\* column key to its value in original row R-1-n; next returns None exactly
\* when rows_len is 0, and then leaves the table so that it returns None again.
C26_IntoIterLastToFirst ==
  (op = "into_iter_next" /\ DataModel(IterIt, IterVv) /\ columns_len(IterIt) >= 1)
    => /\ Completed
       /\ IsSome(ret) =>
            LET n == Len(iter.items) - 1
            IN  /\ n < Rows(IterIt, IterVv)
                /\ DOMAIN ret.val = DOMAIN IterIt
                /\ \A k \in DOMAIN IterIt :
                     Some(ret.val[k]) = get(IterIt, IterVv, k, Rows(IterIt, IterVv) - 1 - n)
       /\ (ret = None) <=> (Rows(PreIt, PreVv) = 0)
       /\ ret = None => TableUnchanged

\* The key of the column whose slot is i.
KeyOfSlot(it, i) == CHOOSE k \in DOMAIN it : it[k] = i

\* C27: on a table of C >= 1 columns and R rows whose buffer holds R*C values,
\* the element-wise reverse iterator yields exactly R*C items and then None;
\* item n, counted from 0, is ((k, r), v) with r = R-1 - n div C, k the key of
\* slot C-1 - n mod C and v the original element at (k, r).
C27_ElementsReverse ==
  (/\ op = "elements_reverse_next"
   /\ columns_len(IterIt) >= 1 /\ BufferWholeRows(IterIt, IterVv))
    => LET C == columns_len(IterIt)
           R == Rows(IterIt, IterVv)
       IN  /\ Completed
           /\ Len(iter.items) <= R * C
           /\ ret = None => Len(iter.items) = R * C
           /\ IsSome(ret) =>
                LET n == Len(iter.items) - 1
                    r == R - 1 - (n \div C)
                    i == C - 1 - (n % C)
                IN  /\ \E k \in DOMAIN IterIt : IterIt[k] = i
                    /\ ret.val[1] = <<KeyOfSlot(IterIt, i), r>>
                    /\ Some(ret.val[2]) = get(IterIt, IterVv, KeyOfSlot(IterIt, i), r)

\* C27 restricted to the tables whose slots are 0..C-1: there the iterator
\* reports every coordinate once, from the last to the first.
C27_OnDataModelTable ==
  (op = "elements_reverse_next" => SlotsContiguous(IterIt)) => C27_ElementsReverse

\* The traversal of a table of two columns and two rows to its end.
C27_TraversedTwoRows ==
  /\ op = "elements_reverse_next" /\ ret = None /\ DataModel(IterIt, IterVv)
  /\ columns_len(IterIt) = 2 /\ Rows(IterIt, IterVv) = 2 /\ Len(iter.items) = 4
  /\ IterVv[1] # IterVv[2]

\* C28: iter() on a table of the data model starts with cursor 0; item n is row
\* n, its get(k) being the table's get(k, n) for every column key k; next
\* returns None once the cursor is rows_len and on every later call; size_hint
\* is rows_len minus the cursor; the table is never modified.
C28_IterInIndexOrder ==
  (op \in {"iter", "iter_next"} /\ DataModel(IterIt, IterVv))
    => /\ Completed
       /\ indices_table = IterIt /\ values_vector = IterVv
       /\ op = "iter" => iter.row = 0
       /\ iter.row = Len(iter.items)
       /\ iter_size_hint(iter) = Some(Rows(IterIt, IterVv) - iter.row)
       /\ op = "iter_next" =>
            /\ ret = None => Len(iter.items) = Rows(IterIt, IterVv)
            /\ IsSome(ret) => Len(iter.items) <= Rows(IterIt, IterVv)
            /\ IsSome(ret) =>
                 \A k \in DOMAIN IterIt :
                   /\ IsSome(RowBorrowed_get(ret.val, k))
                   /\ RowBorrowed_get(ret.val, k) = get(IterIt, IterVv, k, Len(iter.items) - 1)

\* C28 restricted to the tables that have a column: there iter() goes through
\* the rows in index order as C28 says.
C28_OnTableWithColumns ==
  (op \in {"iter", "iter_next"} => columns_len(IterIt) >= 1) => C28_IterInIndexOrder

\* Two different rows of two columns yielded, and then None.
C28_IteratedTwoRows ==
  /\ op = "iter_next" /\ ret = None
  /\ DataModel(IterIt, IterVv) /\ columns_len(IterIt) = 2 /\ Len(iter.items) = 2
  /\ iter.items[1] # iter.items[2]

\* ------------------------------------------------------------------- rows
\* C29: push_row_with(g) on a table of C >= 1 columns (slots 0..C-1) and R rows
\* calls g once per column key in ascending slot order and appends the results
\* in that order: rows_len becomes R + 1, get(k, R) is g(k) for every column
\* key k, and rows 0..R-1 are as before.
C29_PushRowWithAppendsRow ==
  (op = "push_row_with" /\ SlotsContiguous(PreIt) /\ PreC >= 1)
    => /\ Completed
       /\ Len(args.keys) = PreC
       /\ \A k \in DOMAIN PreIt : \E j \in 1..Len(args.keys) : args.keys[j] = k
       /\ \A i, j \in 1..Len(args.keys) :
            i < j => PreIt[args.keys[i]] < PreIt[args.keys[j]]
       /\ values_vector =
            PreVv \o [j \in 1..Len(args.keys) |-> args.row_generator[args.keys[j]]]
       /\ indices_table = PreIt
       /\ rows_len(indices_table, values_vector) = PreR + 1
       /\ \A k \in DOMAIN PreIt :
            get(indices_table, values_vector, k, PreR) = Some(args.row_generator[k])
       /\ \A k \in DOMAIN PreIt, r \in 0..(PreR - 1) :
            get(indices_table, values_vector, k, r) = get(PreIt, PreVv, k, r)

\* C29 restricted to the tables of the data model: there push_row_with appends
\* the generated row as C29 says.
C29_OnDataModelTable ==
  DataModel(PreIt, PreVv) => C29_PushRowWithAppendsRow

\* A second row of two different generated values appended.
C29_SecondRowGenerated ==
  /\ op = "push_row_with" /\ DataModel(PreIt, PreVv) /\ PreC = 2 /\ PreR = 1
  /\ args.row_generator[args.keys[1]] # args.row_generator[args.keys[2]]

\* C30: on a table of the data model with one or more columns, remove_row(row)
\* and remove_row_hashmap(row) are the same operation: they return None in the
\* same cases, otherwise the same mapping of every column key to a value, and
\* they leave the same key-to-slot map and the same buffer.
C30_RemoveRowRepresentations ==
  (op = "remove_row" /\ DataModel(PreIt, PreVv) /\ PreC >= 1)
    => \A inverse \in InverseTables(PreIt) :
         LET h == remove_row_hashmap(PreIt, PreVv, args.row, inverse)
         IN  /\ Completed /\ h.ret # Panic
             /\ (ret = None) <=> (h.ret = None)
             /\ IsSome(ret) =>
                  /\ DOMAIN h.ret.val = DOMAIN PreIt
                  /\ \A k \in DOMAIN PreIt :
                       RowValueOwned_get(ret.val, k) = Some(h.ret.val[k])
             /\ indices_table = h.indices_table
             /\ values_vector = h.values_vector

\* C30 restricted to the tables with as many rows as columns: there the two
\* operations agree.
C30_OnSquareTable ==
  (PreC >= 1 => PreR = PreC) => C30_RemoveRowRepresentations

\* The second row of a table of two rows and two columns removed.
C30_SquareTableRowRemoved ==
  /\ op = "remove_row" /\ IsSome(ret) /\ DataModel(PreIt, PreVv)
  /\ PreC = 2 /\ PreR = 2 /\ args.row = 1

\* Slot i of the row the iterator goes through has been taken.
SlotTaken(i) == i < Len(iter.values) /\ iter.values[i + 1] = None

\* C31: iterating a mutable row of a table whose slots are 0..C-1 never
\* panics; every item is a column key not yielded before, paired with the
\* reference to its own slot of the row; the slots taken are exactly those of
\* the keys yielded; and at None every key was yielded and every slot taken.
C31_MutableRowIteration ==
  (op = "row_mut_next" /\ SlotsContiguous(IterIt))
    => /\ Completed
       /\ \A n \in 1..Len(iter.items) :
            /\ iter.items[n][1] \in DOMAIN IterIt
            /\ iter.items[n][2] = iter.start + IterIt[iter.items[n][1]]
            /\ \A m \in 1..(n - 1) : iter.items[m][1] # iter.items[n][1]
       /\ \A i \in 0..(Len(iter.values) - 1) :
            SlotTaken(i) <=> \E n \in 1..Len(iter.items) : IterIt[iter.items[n][1]] = i
       /\ ret = None =>
            /\ {iter.items[n][1] : n \in 1..Len(iter.items)} = DOMAIN IterIt
            /\ \A i \in 0..(columns_len(IterIt) - 1) : SlotTaken(i)

\* C31's case: the second row of a table of two columns iterated to its end.
C31_Witness ==
  /\ op = "row_mut_next" /\ ret = None /\ SlotsContiguous(IterIt)
  /\ columns_len(IterIt) = 2 /\ iter.start = 2 /\ Len(iter.items) = 2
  /\ SlotTaken(0) /\ SlotTaken(1)

\* C32: removing the columns of a table of C columns and R rows one at a time
\* with the column-wise owning iterator never fails and yields exactly C
\* columns, each a different column key with R values, the last remaining
\* column included; then next returns None, and the table has no column and an
\* empty buffer.
C32_ColumnWiseConsumption ==
  (op = "column_wise_next" /\ DataModel(IterIt, IterVv))
    => /\ Completed
       /\ Len(iter.items) <= columns_len(IterIt)
       /\ \A n \in 1..Len(iter.items) :
            /\ iter.items[n].key \in DOMAIN IterIt
            /\ Len(iter.items[n].values) = Rows(IterIt, IterVv)
            /\ \A m \in 1..(n - 1) : iter.items[m].key # iter.items[n].key
       /\ ret = None =>
            /\ Len(iter.items) = columns_len(IterIt)
            /\ indices_table = EmptyMap
            /\ values_vector = <<>>

\* C32 for every column but the last remaining one: while two or more columns
\* are left, next yields a column of R values, the r-th being the element of
\* the original table at (key, r).
C32_BeforeTheLastColumn ==
  (op = "column_wise_next" /\ DataModel(IterIt, IterVv) /\ columns_len(PreIt) >= 2)
    => /\ IsSome(ret)
       /\ ret.val.key \in DOMAIN PreIt
       /\ Len(ret.val.values) = Rows(IterIt, IterVv)
       /\ \A r \in 0..(Rows(IterIt, IterVv) - 1) :
            Some(ret.val.values[r + 1]) = get(IterIt, IterVv, ret.val.key, r)

\* The first of two columns of two rows removed.
C32_FirstOfTwoColumns ==
  /\ op = "column_wise_next" /\ IsSome(ret) /\ DataModel(IterIt, IterVv)
  /\ columns_len(IterIt) = 2 /\ Rows(IterIt, IterVv) = 2
  /\ ret.val.values[1] # ret.val.values[2]

\* ----------------------------------------------- deserialization, column map
\* C33: visit_map of entries whose value sequences all have the same length L
\* gives a table with the keys of the entries as its columns, rows_len L, and
\* get(key, r) the r-th value of key's sequence.
C33_VisitMapBuildsTable ==
  (/\ op = "visit_map" /\ args.entries # <<>>
   /\ \A i \in 1..Len(args.entries) : Len(args.entries[i][2]) = Len(args.entries[1][2]))
    => /\ Completed
       /\ DOMAIN indices_table = {args.entries[i][1] : i \in 1..Len(args.entries)}
       /\ Rows(indices_table, values_vector) = Len(args.entries[1][2])
       /\ \A i \in 1..Len(args.entries) :
            \A r \in 0..(Len(args.entries[i][2]) - 1) :
              get(indices_table, values_vector, args.entries[i][1], r)
                = Some(args.entries[i][2][r + 1])

\* ------------------------------------------------------------ repeated keys
\* The call supplies a column key that is repeated or already a column.
SuppliesRepeatedKey ==
  \/ /\ op \in {"with_columns", "from_column_keys_and_rows"}
     /\ ~Distinct(args.columns)
  \/ /\ op = "from_iter" /\ args.rows # <<>>
     /\ ~DistinctKeys(args.rows[1])
     /\ \A r \in 2..Len(args.rows) : PairKeys(args.rows[r]) = PairKeys(args.rows[1])
  \/ /\ op = "insert_column" /\ DataModel(PreIt, PreVv) /\ PreC >= 1
     /\ args.column \in DOMAIN PreIt /\ Len(args.values) = PreR

\* The keys the call leaves as columns.
SuppliedKeys ==
  IF op = "from_iter" THEN PairKeys(args.rows[1])
  ELSE IF op = "insert_column" THEN DOMAIN PreIt
  ELSE {args.columns[i] : i \in 1..Len(args.columns)}

\* C34: after with_columns or from_column_keys_and_rows with a repeated key,
\* after from_iter whose first row repeats a key, and after insert_column with
\* a key that is already a column, columns_len is the number of distinct keys,
\* the slots are exactly 0..columns_len-1, and the buffer holds whole rows.
C34_RepeatedKeyKeepsSlots ==
  SuppliesRepeatedKey
    => /\ Completed
       /\ columns_len(indices_table) = Cardinality(SuppliedKeys)
       /\ SlotsContiguous(indices_table)
       /\ BufferWholeRows(indices_table, values_vector)

\* ------------------------------------------------- row-wise collection, again
\* The value a row supplies first for key k.
FirstValue(row, k) ==
  row[CHOOSE j \in 1..Len(row) :
        row[j][1] = k /\ \A i \in 1..(j - 1) : row[i][1] # k][2]

\* The column key with the n-th smallest slot, n counted from 1.
KeyOfRank(it, n) ==
  CHOOSE k \in DOMAIN it : Cardinality({k2 \in DOMAIN it : it[k2] < it[k]}) = n - 1

\* C35: in from_iter a row after the first that lists a key more than once is
\* collapsed by key before the length check: the rows are accepted exactly
\* when the key set of each equals the column-key set, and an accepted row
\* adds one value per column key, in slot order, the first the row supplies
\* for that key.
C35_FromIterCollapsesByKey ==
  (op = "from_iter" /\ args.rows # <<>>)
    => LET first == args.rows[1]
           C == Cardinality(PairKeys(first))
       IN  /\ Completed <=>
                \A r \in 2..Len(args.rows) : PairKeys(args.rows[r]) = PairKeys(first)
           /\ Completed =>
                /\ DOMAIN indices_table = PairKeys(first)
                /\ Len(values_vector) = Len(first) + (Len(args.rows) - 1) * C
                /\ \A r \in 2..Len(args.rows) : \A n \in 1..C :
                     values_vector[Len(first) + (r - 2) * C + n]
                       = FirstValue(args.rows[r], KeyOfRank(indices_table, n))

\* C35's case: a second row that lists the only column key twice, with
\* different values, is accepted and adds the first of them.
C35_Witness ==
  /\ op = "from_iter" /\ Completed /\ Len(args.rows) = 2
  /\ Len(args.rows[1]) = 1 /\ Len(args.rows[2]) = 2
  /\ args.rows[2][1][1] = args.rows[2][2][1]
  /\ args.rows[2][1][2] # args.rows[2][2][2]
  /\ values_vector[2] = args.rows[2][1][2]
====
